---- MODULE Spec2Model ----
(***************************************************************************)
(* Model of the overlyx git hooks (hooks/post-merge.py, hooks/pre-commit.py)*)
(* as a state machine.  One action per external command or control step of  *)
(* GitProcessor.process_file / main and LyXProcessor.process_file / main.   *)
(* The version-control system and the converter are external commands: the  *)
(* exit code of every command is an input chosen from ExitCodes, and the    *)
(* effect of a successful command on the repository is the one git has.     *)
(***************************************************************************)
EXTENDS Integers, Sequences, FiniteSets, TLC

\* ---------------------------------------------------------------- bounds
\* Largest number of documents (.tex/.lyx pairs) present in the managed directory.
MaxDocs == 2

\* Document base names that may be present in the managed directory.
Docs == {"main", "intro", "ch1", "domain"}

\* Exit codes an external command may return (0 success, 1 failure).
ExitCodes == {0, 1}

\* Markers for an absent RichForm and an absent SourceForm file.
None == {"absent"}
NoTex == [body |-> {"absent"}, env |-> FALSE]

VARIABLES
  entry,          \* hook git started at top level: "post-merge" or "pre-commit"
  pc,             \* position of the post-merge process
  tex_files,      \* post-merge main: the list of documents to process
  idx,            \* post-merge main: index of the current document
  success_count,  \* post-merge main: count of True results
  exitCode,       \* post-merge process exit code (-1 while running)
  summary,        \* post-merge final summary <<N, M>> (<<>> before it is logged)
  retval,         \* value returned by the current process_file execution
  disable_hooks,  \* TRUE iff the file ~/overlyx/.disable_hooks exists
  tex,            \* working tree: SourceForm of each document
  lyx,            \* working tree: RichForm of each document (None if absent)
  head,           \* commit id HEAD points to
  reflog,         \* reflog of HEAD, newest first: reflog[n+1] is HEAD@{n}
  commits,        \* commit objects, by id: [msg, p1, p2]
  origin,         \* commit id of origin/master
  mergeState,     \* "none", "unmerged" or "resolved" (MERGE_HEAD exists iff not "none")
  stash,          \* stash stack, newest first: who pushed each entry
  ran,            \* steps executed by the current process_file execution
  failed,         \* a CommandError was raised in the current process_file execution
  headBefore,     \* HEAD when the current process_file execution started
  tokenBefore,    \* disable_hooks when the current process_file execution started
  tokenAtStart,   \* disable_hooks when the top-level run started
  results,        \* finished process_file executions: [doc, ok, failed]
  stripLog,       \* <<hook, doc>> for every envelope strip applied
  exportLog,      \* <<hook, doc>> for every SourceForm export
  ppc,            \* position of the pre-commit process
  lyx_files,      \* pre-commit main: the list of documents to process
  pidx,           \* pre-commit main: index of the current document
  psuccess,       \* pre-commit main: success_count
  pexit,          \* pre-commit process exit code (-1 while running)
  psummary,       \* pre-commit final summary <<N, M>>
  presults,       \* pre-commit: values returned by process_file, in order
  caller,         \* who started the pre-commit hook: "user" or "post-merge"
  oracle_calls,   \* is_git_merging calls of the current process_file execution
  popped,         \* owner of the stash entry `git stash pop` removed in the
                  \* current process_file execution ("nothing" if none)
  rc              \* the run_command call examined on its own: arguments and outcome

gitv  == <<head, reflog, commits, origin, mergeState, stash>>
filev == <<tex, lyx>>
mainv == <<tex_files, idx, success_count, exitCode, summary>>
histv == <<headBefore, tokenBefore, tokenAtStart, results>>
auxv  == <<oracle_calls, popped>>
logv  == <<stripLog, exportLog>>
prev  == <<ppc, lyx_files, pidx, psuccess, pexit, psummary, presults, caller>>
vars  == <<entry, pc, retval, disable_hooks, ran, failed,
           gitv, filev, mainv, histv, auxv, logv, prev, rc>>

\* ------------------------------------------------------- pure helpers

\* The characters of a document base name.
NameChars(d) ==
  CASE d = "main"  -> <<"m", "a", "i", "n">>
    [] d = "intro" -> <<"i", "n", "t", "r", "o">>
    [] d = "ch1"   -> <<"c", "h", "1">>
    [] d = "domain" -> <<"d", "o", "m", "a", "i", "n">>

\* Path of the managed directory and the SourceForm suffix, as characters.
TexDirChars == <<"/", "r", "/", "t", "e", "x", "/">>
TexSuffix == <<".", "t", "e", "x">>

\* str(f) of a SourceForm file found by tex_dir.glob("*.tex").
PathChars(d) == TexDirChars \o NameChars(d) \o TexSuffix

\* Python's `sub in s` on character sequences.
HasSub(s, sub) ==
  \E i \in 1..(Len(s) - Len(sub) + 1) : SubSeq(s, i, i + Len(sub) - 1) = sub

\* The filter of the list comprehension in post-merge main.
IsListed(d) ==
  /\ ~HasSub(PathChars(d), <<"t", "e", "m", "p">>)
  /\ ~HasSub(PathChars(d), <<"m", "a", "i", "n">>)

\* All orderings of a finite set as sequences (glob gives no order guarantee).
Perms(S) ==
  {f \in [1..Cardinality(S) -> S] : \A i, j \in 1..Cardinality(S) : f[i] = f[j] => i = j}

\* subprocess.run(check=check) inside run_command: the exception raised, or "ok".
run_command_unchecked(exit, check, silent) == "ok"
run_command_unless_silent(exit, check, silent) ==
  IF check /\ ~silent /\ exit # 0 THEN "CommandError" ELSE "ok"
run_command(exit, check, silent) ==
  IF check /\ exit # 0 THEN "CommandError" ELSE "ok"

\* The CompletedProcess run_command returns when it does not raise.
run_result(exit, out, err) == [returncode |-> exit, stdout |-> out, stderr |-> err]

\* What run_command writes to the logger: the command, then either the error
\* lines of the except clause or, unless silent, the non-empty outputs.
run_log(cmd, exit, out, err, check, silent) ==
  << <<"debug", "Executing", cmd>> >> \o
  (IF run_command(exit, check, silent) = "CommandError"
   THEN << <<"error", "Command failed", cmd>>, <<"error", "Error output", err, out>> >>
   ELSE IF silent THEN <<>>
   ELSE (IF out # "" THEN << <<"debug", out>> >> ELSE <<>>) \o
        (IF err # "" THEN << <<"debug", err>> >> ELSE <<>>))

\* Path.touch() / Path.unlink(missing_ok=True) on the marker file.
touch_noop(tok) == tok
touch(tok) == TRUE
unlink_keeps(tok) == tok
unlink(tok) == FALSE

\* lyx --export-to latex: the full document, envelope included.
LyxToTex(body) == [body |-> body, env |-> TRUE]

\* gawk filter: keeps the body, drops \begin{document}, \end{document}, \include.
StripEnvelope(t) == [body |-> t.body, env |-> FALSE]

\* tex2lyx -f: the rich form of the text's body.
TexToLyx(t) == t.body

\* SourceForm and RichForm are content-equivalent under the converter's mapping.
Equivalent(t, l) == l # None /\ TexToLyx(t) = l

\* git rev-parse --verify MERGE_HEAD exits 0 iff MERGE_HEAD exists.
MergeHeadExit(ms) == IF ms # "none" THEN 0 ELSE 1

\* is_git_merging: returncode == 0.
is_git_merging_inverted(ms) == MergeHeadExit(ms) # 0
is_git_merging(ms) == MergeHeadExit(ms) = 0

\* origin/master's version of a document's SourceForm.
RemoteTex(d, o) == [body |-> IF o = 3 THEN {"r"} ELSE {}, env |-> d = "main"]

\* Is commit a reachable from commit b through parent links?
RECURSIVE IsAncestor(_, _, _)
IsAncestor(a, b, cs) ==
  IF b = 0 THEN FALSE
  ELSE IF a = b THEN TRUE
  ELSE IsAncestor(a, cs[b].p1, cs) \/ IsAncestor(a, cs[b].p2, cs)

\* Messages of the commits reachable from commit b.
RECURSIVE History(_, _)
History(b, cs) ==
  IF b = 0 THEN {}
  ELSE {cs[b].msg} \cup History(cs[b].p1, cs) \cup History(cs[b].p2, cs)

\* git commit: a new commit on top of HEAD (concluding a merge in progress).
NewCommit(msg, h, ms, o) == [msg |-> msg, p1 |-> h, p2 |-> IF ms # "none" THEN o ELSE 0]


\* sys.exit(1) when success_count < total, plain return otherwise.
ExitStatusOnlyIfNone(n, m) == IF n = 0 /\ m > 0 THEN 1 ELSE 0
ExitStatus(n, m) == IF n < m THEN 1 ELSE 0

\* `except CommandError` of process_file: which exceptions the handler catches.
CatchesNothing(exc) == FALSE
Catches(exc) == exc = "CommandError"

\* Outcomes of `git merge --no-ff origin/master`: nothing to merge, a merge
\* commit, a conflict left in progress, a failure that changes nothing, or
\* (branch.<name>.mergeOptions = --no-commit) a merge stopped before the commit.
MergeOutcomes(o, h, cs) ==
  IF IsAncestor(o, h, cs) THEN {"uptodate", "error"}
  ELSE {"merged", "conflict", "error", "nocommit"}

MergeExit(out) == IF out \in {"conflict", "error"} THEN 1 ELSE 0

\* Result of a three-way merge of a local and a remote body without conflict.
MergeBody(local, remote) == local \cup remote

\* ------------------------------------------------------------ Init

\* No run_command call has been examined.
NoCall == [cmd |-> "", exit |-> 0, out |-> "", err |-> "", check |-> FALSE,
           silent |-> FALSE, raised |-> FALSE,
           ret |-> [returncode |-> 0, stdout |-> "", stderr |-> ""], log |-> <<>>]

InitTex(d, l, b) ==
  [body |-> IF l = None THEN b ELSE l, env |-> d = "main"]

Init ==
  /\ entry \in {"post-merge", "pre-commit"}
  /\ \E dir \in {S \in SUBSET Docs : Cardinality(S) <= MaxDocs} :
       /\ lyx \in {f \in [Docs -> {None, {}, {"l"}}] : \A d \in Docs \ dir : f[d] = None}
       /\ \E b \in [Docs -> {{}, {"l"}}] :
            /\ \A d \in Docs : lyx[d] # None => b[d] = {}
            /\ \A d \in Docs \ dir : b[d] = {}
            /\ tex = [d \in Docs |-> IF d \in dir THEN InitTex(d, lyx[d], b[d]) ELSE NoTex]
  /\ pc = IF entry = "post-merge" THEN "main" ELSE "idle"
  /\ ppc = IF entry = "pre-commit" THEN "main" ELSE "idle"
  /\ caller = "user"
  /\ tex_files = <<>> /\ idx = 0 /\ success_count = 0 /\ exitCode = -1 /\ summary = <<>>
  /\ lyx_files = <<>> /\ pidx = 0 /\ psuccess = 0 /\ pexit = -1 /\ psummary = <<>>
  /\ presults = <<>>
  /\ retval = FALSE
  /\ disable_hooks \in BOOLEAN
  /\ tokenAtStart = disable_hooks
  /\ tokenBefore = disable_hooks
  /\ commits = << [msg |-> "base", p1 |-> 0, p2 |-> 0],
                  [msg |-> "local", p1 |-> 1, p2 |-> 0],
                  [msg |-> "remote", p1 |-> 1, p2 |-> 0] >>
  /\ head = 2
  /\ headBefore = 2
  /\ reflog = <<2, 1>>
  /\ origin = 1
  /\ mergeState = "none"
  /\ stash \in {<<>>, <<"user">>}
  /\ ran = {}
  /\ failed = FALSE
  /\ results = <<>>
  /\ stripLog = {}
  /\ exportLog = {}
  /\ oracle_calls = 0
  /\ popped = "nothing"
  /\ rc = NoCall

\* ------------------------------------------------ post-merge: main

\* The document process_file is working on.
Doc == tex_files[idx]

MainStart ==
  /\ pc = "main"
  /\ \E order \in Perms({d \in Docs : tex[d] # NoTex /\ IsListed(d)}) :
       /\ tex_files' = order
       /\ IF order = <<>>
          THEN pc' = "exited" /\ exitCode' = 0 /\ idx' = idx
          ELSE pc' = "loop" /\ exitCode' = exitCode /\ idx' = 1
  /\ success_count' = 0
  /\ UNCHANGED <<entry, rc, auxv, retval, disable_hooks, ran, failed, summary,
                 gitv, filev, histv, logv, prev>>

MainLoop ==
  /\ pc = "loop"
  /\ IF idx <= Len(tex_files)
     THEN /\ pc' = "pf_start"
          /\ ran' = {}
          /\ failed' = FALSE
          /\ headBefore' = head
          /\ tokenBefore' = disable_hooks
          /\ oracle_calls' = 0
          /\ popped' = "nothing"
     ELSE /\ pc' = "summary"
          /\ UNCHANGED <<ran, failed, headBefore, tokenBefore, auxv>>
  /\ UNCHANGED <<entry, rc, retval, disable_hooks, tokenAtStart, results,
                 gitv, filev, mainv, logv, prev>>

ProcessFileReturn ==
  /\ pc = "pf_return"
  /\ success_count' = IF retval THEN success_count + 1 ELSE success_count
  /\ idx' = idx + 1
  /\ results' = Append(results, [doc |-> Doc, ok |-> retval, failed |-> failed])
  /\ pc' = "loop"
  /\ UNCHANGED <<entry, rc, auxv, retval, disable_hooks, ran, failed, tex_files, exitCode, summary,
                 headBefore, tokenBefore, tokenAtStart, gitv, filev, logv, prev>>

MainFinish ==
  /\ pc = "summary"
  /\ summary' = <<success_count, Len(tex_files)>>
  /\ exitCode' = ExitStatus(success_count, Len(tex_files))
  /\ pc' = "exited"
  /\ UNCHANGED <<entry, rc, auxv, retval, disable_hooks, ran, failed, tex_files, idx, success_count,
                 gitv, filev, histv, logv, prev>>

\* ---------------------------------------- post-merge: process_file

\* A command returned without raising: go on with the next statement.
Continue(next) ==
  /\ pc' = next
  /\ UNCHANGED <<retval, failed, disable_hooks, mainv>>

\* The token after a CommandError: the finally clause encloses the gated
\* block only, so it runs only for errors raised inside it.
ReleaseAlways(inGate, tok) == unlink(tok)
ReleaseOnRaise(inGate, tok) == IF inGate THEN unlink(tok) ELSE tok

\* A CommandError propagates: the finally clause (inside the gated block
\* only) and then the except clause of process_file, which returns False.
Raise(inGate) ==
  /\ failed' = TRUE
  /\ disable_hooks' = ReleaseOnRaise(inGate, disable_hooks)
  /\ IF Catches("CommandError")
     THEN pc' = "pf_return" /\ retval' = FALSE /\ UNCHANGED mainv
     ELSE /\ pc' = "exited" /\ exitCode' = 1 /\ retval' = retval
          /\ UNCHANGED <<tex_files, idx, success_count, summary>>

ProcessFileStart ==
  /\ pc = "pf_start"
  /\ pc' = IF lyx[Doc] = None THEN "ensure_rich" ELSE "add_lyx"
  /\ UNCHANGED <<entry, rc, auxv, retval, disable_hooks, ran, failed,
                 gitv, filev, mainv, histv, logv, prev>>

EnsureRich ==
  /\ pc = "ensure_rich"
  /\ ran' = ran \cup {"ensure_rich"}
  /\ \E exit \in ExitCodes :
       /\ lyx' = IF exit = 0 THEN [lyx EXCEPT ![Doc] = TexToLyx(tex[Doc])] ELSE lyx
       /\ IF run_command(exit, TRUE, FALSE) = "CommandError"
          THEN pc' = "pf_return" /\ retval' = FALSE /\ failed' = TRUE
          ELSE pc' = "add_lyx" /\ UNCHANGED <<retval, failed>>
  /\ UNCHANGED <<entry, rc, auxv, disable_hooks, tex, gitv, mainv, histv, logv, prev>>

\* A checked command with no effect on the modelled state.
Plain(at, next, inGate) ==
  /\ pc = at
  /\ ran' = ran \cup {at}
  /\ \E exit \in ExitCodes :
       IF run_command(exit, TRUE, FALSE) = "CommandError"
       THEN Raise(inGate)
       ELSE Continue(next)
  /\ UNCHANGED <<entry, rc, auxv, gitv, filev, histv, logv, prev>>

\* git commit --allow-empty --no-verify -m msg
Commit(at, next, msg) ==
  /\ pc = at
  /\ ran' = ran \cup {at}
  /\ \E exit \in (IF mergeState = "unmerged" THEN {1} ELSE ExitCodes) :
       IF run_command(exit, TRUE, FALSE) = "CommandError"
       THEN Raise(FALSE) /\ UNCHANGED gitv
       ELSE /\ Continue(next)
            /\ commits' = Append(commits, NewCommit(msg, head, mergeState, origin))
            /\ head' = Len(commits) + 1
            /\ reflog' = <<Len(commits) + 1>> \o reflog
            /\ mergeState' = "none"
            /\ UNCHANGED <<origin, stash>>
  /\ UNCHANGED <<entry, rc, auxv, filev, histv, logv, prev>>

GitAddLyx == Plain("add_lyx", "commit_backup", FALSE)

CommitBackup == Commit("commit_backup", "export", "[hook] Backup")

\* post-merge process_file: `if tex_file.name != "main.tex"` guards the gawk strip.
PostMergeStrips(d) == d # "main"

\* lyx --export-to latex tex_file -f lyx_file
ExportLatex ==
  /\ pc = "export"
  /\ ran' = ran \cup {"export"}
  /\ \E exit \in ExitCodes :
       IF run_command(exit, TRUE, FALSE) = "CommandError"
       THEN Raise(FALSE) /\ UNCHANGED <<tex, exportLog>>
       ELSE /\ Continue(IF PostMergeStrips(Doc) THEN "strip" ELSE "add_tex")
            /\ tex' = [tex EXCEPT ![Doc] = LyxToTex(lyx[Doc])]
            /\ exportLog' = exportLog \cup {<<"post-merge", Doc>>}
  /\ UNCHANGED <<entry, rc, auxv, lyx, stripLog, gitv, histv, prev>>

StripNonMain ==
  /\ pc = "strip"
  /\ ran' = ran \cup {"strip"}
  /\ \E exit \in ExitCodes :
       IF run_command(exit, TRUE, FALSE) = "CommandError"
       THEN Raise(FALSE) /\ UNCHANGED <<tex, stripLog>>
       ELSE /\ Continue("add_tex")
            /\ tex' = [tex EXCEPT ![Doc] = StripEnvelope(tex[Doc])]
            /\ stripLog' = stripLog \cup {<<"post-merge", Doc>>}
  /\ UNCHANGED <<entry, rc, auxv, lyx, exportLog, gitv, histv, prev>>

GitAddTex == Plain("add_tex", "commit_premerge", FALSE)

CommitPreMerge == Commit("commit_premerge", "stash", "[hook] Pre-merge")

\* git stash -u: saves and removes uncommitted changes if there are any (and
\* then resets to HEAD, which the reflog records); a no-op otherwise.
StashPush ==
  /\ pc = "stash"
  /\ ran' = ran \cup {"stash"}
  /\ \E exit \in ExitCodes :
       IF run_command(exit, TRUE, FALSE) = "CommandError"
       THEN Raise(FALSE) /\ UNCHANGED gitv
       ELSE /\ Continue("fetch")
            /\ \E saved \in BOOLEAN :
                 IF saved
                 THEN stash' = <<Doc>> \o stash /\ reflog' = <<head>> \o reflog
                 ELSE UNCHANGED <<stash, reflog>>
            /\ UNCHANGED <<head, commits, origin, mergeState>>
  /\ UNCHANGED <<entry, rc, auxv, filev, histv, logv, prev>>

\* git fetch: origin/master stays or advances to the remote's new commit.
Fetch ==
  /\ pc = "fetch"
  /\ ran' = ran \cup {"fetch"}
  /\ \E exit \in ExitCodes :
       IF run_command(exit, TRUE, FALSE) = "CommandError"
       THEN Raise(FALSE) /\ UNCHANGED gitv
       ELSE /\ Continue("touch")
            /\ \E o \in {origin, 3} : origin' = o
            /\ UNCHANGED <<head, reflog, commits, mergeState, stash>>
  /\ UNCHANGED <<entry, rc, auxv, filev, histv, logv, prev>>

\* disable_hooks.touch()
TouchGate ==
  /\ pc = "touch"
  /\ ran' = ran \cup {"touch"}
  /\ disable_hooks' = touch(disable_hooks)
  /\ pc' = "merge"
  /\ UNCHANGED <<entry, rc, auxv, retval, failed, gitv, filev, mainv, histv, logv, prev>>

\* git merge -v --no-ff --no-verify origin/master -m "[hook] Merge origin into local"
Merge ==
  /\ pc = "merge"
  /\ ran' = ran \cup {"merge"}
  /\ \E out \in MergeOutcomes(origin, head, commits) :
       /\ CASE out = "merged" ->
                 /\ commits' = Append(commits, [msg |-> "[hook] Merge origin into local",
                                                p1 |-> head, p2 |-> origin])
                 /\ head' = Len(commits) + 1
                 /\ reflog' = <<Len(commits) + 1>> \o reflog
                 /\ tex' = [tex EXCEPT ![Doc].body = MergeBody(@, RemoteTex(Doc, origin).body)]
                 /\ UNCHANGED mergeState
            [] out = "nocommit" ->
                 /\ mergeState' = "resolved"
                 /\ tex' = [tex EXCEPT ![Doc].body = MergeBody(@, RemoteTex(Doc, origin).body)]
                 /\ UNCHANGED <<commits, head, reflog>>
            [] out = "conflict" ->
                 /\ mergeState' = "unmerged"
                 /\ UNCHANGED <<commits, head, reflog, tex>>
            [] OTHER ->
                 UNCHANGED <<commits, head, reflog, tex, mergeState>>
       /\ IF run_command(MergeExit(out), TRUE, FALSE) = "CommandError"
          THEN Raise(TRUE)
          ELSE Continue("oracle")
  /\ UNCHANGED <<entry, rc, auxv, lyx, origin, stash, histv, logv, prev>>

\* if self.is_git_merging(): the rev-parse runs with check=False, silent=True
IsGitMerging ==
  /\ pc = "oracle"
  /\ ran' = ran \cup {"oracle"}
  /\ oracle_calls' = oracle_calls + 1
  /\ IF run_command(MergeHeadExit(mergeState), FALSE, TRUE) = "CommandError"
     THEN Raise(TRUE)
     ELSE Continue(IF is_git_merging(mergeState) THEN "hmc_checkout" ELSE "pop")
  /\ UNCHANGED <<entry, rc, popped, gitv, filev, histv, logv, prev>>

\* handle_merge_conflict: git checkout --theirs .
ConflictCheckout ==
  /\ pc = "hmc_checkout"
  /\ ran' = ran \cup {"hmc_checkout"}
  /\ \E exit \in ExitCodes :
       IF run_command(exit, TRUE, FALSE) = "CommandError"
       THEN Raise(TRUE) /\ UNCHANGED tex
       ELSE /\ Continue("hmc_add")
            /\ tex' = IF mergeState = "unmerged"
                      THEN [tex EXCEPT ![Doc] = RemoteTex(Doc, origin)]
                      ELSE tex
  /\ UNCHANGED <<entry, rc, auxv, lyx, gitv, histv, logv, prev>>

\* handle_merge_conflict: git add .
ConflictAdd ==
  /\ pc = "hmc_add"
  /\ ran' = ran \cup {"hmc_add"}
  /\ \E exit \in ExitCodes :
       IF run_command(exit, TRUE, FALSE) = "CommandError"
       THEN Raise(TRUE) /\ UNCHANGED mergeState
       ELSE Continue("hmc_commit") /\ mergeState' = "resolved"
  /\ UNCHANGED <<entry, rc, auxv, head, reflog, commits, origin, stash, filev, histv, logv, prev>>

\* handle_merge_conflict: git commit -m "[hook] Accept remote version".  No
\* --no-verify: git starts the pre-commit hook and waits for it.
ConflictCommit ==
  /\ pc = "hmc_commit"
  /\ ppc = "idle"
  /\ ran' = ran \cup {"hmc_commit"}
  /\ pc' = "hmc_commit_hook"
  /\ ppc' = "main"
  /\ caller' = "post-merge"
  /\ UNCHANGED <<entry, rc, auxv, retval, failed, disable_hooks, gitv, filev, mainv, histv, logv,
                 lyx_files, pidx, psuccess, pexit, psummary, presults>>

\* The pre-commit hook has exited (its process and variables are gone): a
\* non-zero exit aborts the commit.
ConflictCommitDone ==
  /\ pc = "hmc_commit_hook"
  /\ ppc = "exited"
  /\ ppc' = "idle"
  /\ \E exit \in (IF pexit # 0 \/ mergeState = "unmerged" THEN {1} ELSE ExitCodes) :
       IF run_command(exit, TRUE, FALSE) = "CommandError"
       THEN Raise(TRUE) /\ UNCHANGED gitv
       ELSE /\ Continue("pop")
            /\ commits' = Append(commits, NewCommit("[hook] Accept remote version",
                                                    head, mergeState, origin))
            /\ head' = Len(commits) + 1
            /\ reflog' = <<Len(commits) + 1>> \o reflog
            /\ mergeState' = "none"
            /\ UNCHANGED <<origin, stash>>
  /\ lyx_files' = <<>> /\ pidx' = 0 /\ psuccess' = 0 /\ pexit' = -1
  /\ psummary' = <<>> /\ presults' = <<>>
  /\ UNCHANGED <<entry, rc, auxv, ran, filev, histv, logv, caller>>

\* git stash pop, check=False: the exit code is ignored.
StashPop ==
  /\ pc = "pop"
  /\ ran' = ran \cup {"pop"}
  /\ \E exit \in (IF stash = <<>> THEN {1} ELSE ExitCodes) :
       /\ IF run_command(exit, FALSE, FALSE) = "CommandError"
          THEN Raise(TRUE)
          ELSE Continue("tex2lyx")
       /\ stash' = IF exit = 0 THEN Tail(stash) ELSE stash
       /\ popped' = IF exit = 0 THEN Head(stash) ELSE popped
  /\ UNCHANGED <<entry, rc, oracle_calls, head, reflog, commits, origin, mergeState, filev, histv, logv, prev>>

\* tex2lyx -f tex_file, after the merge
TexToLyxMerged ==
  /\ pc = "tex2lyx"
  /\ ran' = ran \cup {"tex2lyx"}
  /\ \E exit \in ExitCodes :
       IF run_command(exit, TRUE, FALSE) = "CommandError"
       THEN Raise(TRUE) /\ UNCHANGED lyx
       ELSE Continue("reset") /\ lyx' = [lyx EXCEPT ![Doc] = TexToLyx(tex[Doc])]
  /\ UNCHANGED <<entry, rc, auxv, tex, gitv, histv, logv, prev>>

\* The reflog entry `git reset --soft HEAD@{n}` resolves to.
ResetTarget(rl, n) == rl[n + 1]

\* git reset --soft HEAD@{2}
ResetSoft ==
  /\ pc = "reset"
  /\ ran' = ran \cup {"reset"}
  /\ \E exit \in (IF Len(reflog) < 3 \/ mergeState # "none" THEN {1} ELSE ExitCodes) :
       IF run_command(exit, TRUE, FALSE) = "CommandError"
       THEN Raise(TRUE) /\ UNCHANGED gitv
       ELSE /\ Continue("diff")
            /\ head' = ResetTarget(reflog, 2)
            /\ reflog' = <<ResetTarget(reflog, 2)>> \o reflog
            /\ UNCHANGED <<commits, origin, mergeState, stash>>
  /\ UNCHANGED <<entry, rc, auxv, filev, histv, logv, prev>>

\* git diff origin/master tex_file
DiffUpstream == Plain("diff", "checkout", TRUE)

\* git checkout origin/master -- tex_file; then `return True` through finally
CheckoutUpstream ==
  /\ pc = "checkout"
  /\ ran' = ran \cup {"checkout"}
  /\ \E exit \in ExitCodes :
       IF run_command(exit, TRUE, FALSE) = "CommandError"
       THEN Raise(TRUE) /\ UNCHANGED tex
       ELSE /\ tex' = [tex EXCEPT ![Doc] = RemoteTex(Doc, origin)]
            /\ disable_hooks' = unlink(disable_hooks)
            /\ retval' = TRUE
            /\ pc' = "pf_return"
            /\ UNCHANGED <<failed, mainv>>
  /\ UNCHANGED <<entry, rc, auxv, lyx, gitv, histv, logv, prev>>

\* ------------------------------------------------------ pre-commit

\* The document LyXProcessor.process_file is working on.
PDoc == lyx_files[pidx]

\* pre-commit process_file: `if lyx_file.name == "main.lyx"` guards the gawk strip.
PreCommitStrips(d) == d = "main"

PreMainStart ==
  /\ ppc = "main"
  /\ \E order \in Perms({d \in Docs : lyx[d] # None}) :
       /\ lyx_files' = order
       /\ IF order = <<>>
          THEN ppc' = "exited" /\ pexit' = 0 /\ pidx' = pidx
          ELSE ppc' = "loop" /\ pexit' = -1 /\ pidx' = 1
  /\ psuccess' = 0
  /\ psummary' = <<>>
  /\ presults' = <<>>
  /\ UNCHANGED <<entry, rc, auxv, pc, retval, disable_hooks, ran, failed, caller,
                 gitv, filev, mainv, histv, logv>>

PreMainLoop ==
  /\ ppc = "loop"
  /\ ppc' = IF pidx <= Len(lyx_files) THEN "export" ELSE "finish"
  /\ UNCHANGED <<entry, rc, auxv, pc, retval, disable_hooks, ran, failed,
                 lyx_files, pidx, psuccess, pexit, psummary, presults, caller,
                 gitv, filev, mainv, histv, logv>>

\* process_file returned r: the loop body of main counts it.
PreReturn(r) ==
  /\ psuccess' = IF r THEN psuccess + 1 ELSE psuccess
  /\ pidx' = pidx + 1
  /\ presults' = Append(presults, r)
  /\ ppc' = "loop"

PreExport ==
  /\ ppc = "export"
  /\ \E exit \in ExitCodes :
       IF run_command(exit, TRUE, FALSE) = "CommandError"
       THEN PreReturn(FALSE) /\ UNCHANGED <<tex, exportLog>>
       ELSE /\ tex' = [tex EXCEPT ![PDoc] = LyxToTex(lyx[PDoc])]
            /\ exportLog' = exportLog \cup {<<"pre-commit", PDoc>>}
            /\ IF PreCommitStrips(PDoc)
               THEN ppc' = "strip" /\ UNCHANGED <<psuccess, pidx, presults>>
               ELSE PreReturn(TRUE)
  /\ UNCHANGED <<entry, rc, auxv, pc, retval, disable_hooks, ran, failed, lyx, stripLog,
                 lyx_files, pexit, psummary, caller, gitv, mainv, histv>>

PreStrip ==
  /\ ppc = "strip"
  /\ \E exit \in ExitCodes :
       IF run_command(exit, TRUE, FALSE) = "CommandError"
       THEN PreReturn(FALSE) /\ UNCHANGED <<tex, stripLog>>
       ELSE /\ tex' = [tex EXCEPT ![PDoc] = StripEnvelope(tex[PDoc])]
            /\ stripLog' = stripLog \cup {<<"pre-commit", PDoc>>}
            /\ PreReturn(TRUE)
  /\ UNCHANGED <<entry, rc, auxv, pc, retval, disable_hooks, ran, failed, lyx, exportLog,
                 lyx_files, pexit, psummary, caller, gitv, mainv, histv>>

PreMainFinish ==
  /\ ppc = "finish"
  /\ psummary' = <<psuccess, Len(lyx_files)>>
  /\ pexit' = ExitStatus(psuccess, Len(lyx_files))
  /\ ppc' = "exited"
  /\ UNCHANGED <<entry, rc, auxv, pc, retval, disable_hooks, ran, failed,
                 lyx_files, pidx, psuccess, presults, caller, gitv, filev, mainv, histv, logv>>

\* ------------------------------------------- run_command on its own

\* Commands, exit codes and captured outputs the examined call is drawn from.
RunCmds == {"git fetch", "git stash pop", "git rev-parse --verify MERGE_HEAD"}
RunExitCodes == {0, 1, 128}
RunOutputs == {"", "text"}

\* One call run_command(cmd, check, silent) whose process exits with `exit`.
RunCall ==
  /\ \E cmd \in RunCmds, exit \in RunExitCodes, out \in RunOutputs, err \in RunOutputs,
        check \in BOOLEAN, silent \in BOOLEAN :
       rc' = [cmd |-> cmd, exit |-> exit, out |-> out, err |-> err,
              check |-> check, silent |-> silent,
              raised |-> run_command(exit, check, silent) = "CommandError",
              ret |-> IF run_command(exit, check, silent) = "CommandError"
                      THEN NoCall.ret
                      ELSE run_result(exit, out, err),
              log |-> run_log(cmd, exit, out, err, check, silent)]
  /\ UNCHANGED <<entry, pc, retval, disable_hooks, ran, failed,
                 gitv, filev, mainv, histv, auxv, logv, prev>>

\* A processor that has been constructed and runs no hook.
RunInit ==
  /\ Init
  /\ entry = "post-merge"
  /\ \A d \in Docs : lyx[d] = None /\ tex[d] = NoTex
  /\ ~disable_hooks
  /\ stash = <<>>

RunNext == RunCall

RunSpec == RunInit /\ [][RunNext]_vars

\* ------------------------------------------------------------ Next

Next ==
  \/ MainStart \/ MainLoop \/ ProcessFileStart \/ ProcessFileReturn \/ MainFinish
  \/ EnsureRich \/ GitAddLyx \/ CommitBackup \/ ExportLatex \/ StripNonMain
  \/ GitAddTex \/ CommitPreMerge \/ StashPush \/ Fetch \/ TouchGate \/ Merge
  \/ IsGitMerging \/ ConflictCheckout \/ ConflictAdd \/ ConflictCommit
  \/ ConflictCommitDone \/ StashPop \/ TexToLyxMerged \/ ResetSoft
  \/ DiffUpstream \/ CheckoutUpstream
  \/ PreMainStart \/ PreMainLoop \/ PreExport \/ PreStrip \/ PreMainFinish

Spec == Init /\ [][Next]_vars

\* ---------------------------------------------------------- properties

\* Steps of process_file that change the repository or the gate.
MergePhaseSteps ==
  {"commit_backup", "commit_premerge", "stash", "fetch", "touch", "merge",
   "hmc_checkout", "hmc_add", "hmc_commit", "pop", "reset", "checkout"}

\* Commit messages of the checkpoint commits.
CheckpointMsgs == {"[hook] Backup", "[hook] Pre-merge"}

\* Number of True results among the finished process_file executions.
RECURSIVE CountOk(_)
CountOk(rs) == IF rs = <<>> THEN 0
               ELSE (IF Head(rs).ok THEN 1 ELSE 0) + CountOk(Tail(rs))

RECURSIVE CountTrue(_)
CountTrue(bs) == IF bs = <<>> THEN 0
                 ELSE (IF Head(bs) THEN 1 ELSE 0) + CountTrue(Tail(bs))

\* C1: whenever process_file returns after having created the .disable_hooks
\* token, the token is absent, on the success path and on every CommandError
\* path after the acquisition.
C1_GateReleased ==
  (pc = "pf_return" /\ "touch" \in ran) => ~disable_hooks

\* C1 witness: process_file acquired the gate, a command in the gated block
\* raised CommandError, and the token is gone at the return.
C1_Witness ==
  pc = "pf_return" /\ "touch" \in ran /\ failed /\ ~retval /\ ~disable_hooks

\* C2: if the token exists when a post-merge run starts, the run executes no
\* merge-phase step (no checkpoint commit, stash, fetch, merge, reset,
\* checkout) and leaves the token in place.
C2_GateMutualExclusion ==
  (entry = "post-merge" /\ tokenAtStart) =>
     /\ ran \cap MergePhaseSteps = {}
     /\ disable_hooks

\* C3: whenever process_file returns after a successful `git stash -u`, a
\* `git stash pop` was attempted in that execution.
C3_StashNeverStranded ==
  (pc = "pf_return" /\ "fetch" \in ran) => "pop" \in ran

\* C4: whenever process_file returns after having invoked the merge command,
\* the Conflict Oracle (is_git_merging) was consulted, whatever the merge's
\* exit status.
C4_OracleAfterMerge ==
  (pc = "pf_return" /\ "merge" \in ran) => "oracle" \in ran

\* C5: right after a successful `git reset --soft HEAD@{2}` HEAD is the commit
\* that was HEAD before the document's first checkpoint, and no checkpoint
\* commit is reachable from HEAD.
C5_CheckpointSymmetry ==
  pc = "diff" =>
     /\ head = headBefore
     /\ History(head, commits) \cap CheckpointMsgs = {}

\* C6: whenever process_file returns True, the document's SourceForm and
\* RichForm in the working tree are content-equivalent.
C6_FormsConsistent ==
  (pc = "pf_return" /\ retval) => Equivalent(tex[Doc], lyx[Doc])

\* C7: documents are processed once each, in list order; a CommandError in
\* one document fails that document only (it returns True iff none of its
\* own commands raised) and the run goes on to the summary with every listed
\* document processed.
C7_FailureContained ==
  /\ Len(results) <= Len(tex_files)
  /\ \A i \in 1..Len(results) :
       /\ results[i].doc = tex_files[i]
       /\ results[i].ok = ~results[i].failed
  /\ success_count = CountOk(results)
  /\ (pc = "exited" /\ tex_files # <<>>) =>
        (Len(results) = Len(tex_files) /\ summary # <<>>)

\* C7 witness: the first document failed with a CommandError and the second
\* document, whose commands all succeeded, reached DONE.
C7_Witness ==
  /\ pc = "exited"
  /\ Len(results) = 2
  /\ results[1].failed /\ ~results[1].ok
  /\ results[2].ok

\* C8: the pre-commit hook started by a commit of the workflow while the
\* token exists does no work (it processes no document).
C8_NoSelfTrigger ==
  (caller = "post-merge" /\ disable_hooks) => ppc \notin {"export", "strip"}

C10_StripIffNotMain ==
  /\ \A e \in stripLog : e[2] # "main"
  /\ \A i \in 1..Len(presults) :
       (presults[i] /\ lyx_files[i] # "main") => <<"pre-commit", lyx_files[i]>> \in stripLog
  /\ \A i \in 1..Len(results) :
       (results[i].ok /\ results[i].doc # "main") => <<"post-merge", results[i].doc>> \in stripLog

\* C11: the examined run_command call raised CommandError iff check was true
\* and the exit code non-zero, whatever silent was; when it did not raise it
\* returned the process's exit code and captured outputs unchanged.
C11_RunnerContract ==
  /\ rc.raised <=> (rc.check /\ rc.exit # 0)
  /\ ~rc.raised => rc.ret = [returncode |-> rc.exit, stdout |-> rc.out, stderr |-> rc.err]

\* C11 witness: a silent, checked call whose command exited non-zero raised.
C11_Witness ==
  rc.check /\ rc.silent /\ rc.exit # 0 /\ rc.raised

\* Base name of the scratch file the gawk step writes (temp_file.tex).
ScratchDocs == {"temp_file"}

\* C12: once post-merge main has listed the documents, the list holds exactly
\* the .tex files of the managed directory other than scratch files and
\* main.tex.
C12_RegistryExact ==
  (entry = "post-merge" /\ pc # "main") =>
     {tex_files[i] : i \in 1..Len(tex_files)} =
        {d \in Docs : tex[d] # NoTex /\ d # "main" /\ d \notin ScratchDocs}

\* A process_file execution is under way or has just returned.
InProcessFile == pc \notin {"main", "loop", "summary", "exited", "idle"}

\* The '[hook] Backup' commit of the current document is reachable from HEAD.
BackupReachable ==
  \E c \in 1..Len(commits) :
     /\ commits[c].msg = "[hook] Backup"
     /\ commits[c].p1 = headBefore
     /\ IsAncestor(c, head, commits)

C14_StashOwnership ==
  (InProcessFile /\ "pop" \in ran) => popped \in {"nothing", Doc}

\* C15: once the diff command has run the checkout of the remote version
\* runs too, whatever the diff's exit code, and a True result means the
\* working-tree SourceForm is the remote version.
C15_DiffDiagnosticOnly ==
  /\ (pc = "pf_return" /\ "diff" \in ran) => "checkout" \in ran
  /\ (pc = "pf_return" /\ retval) => tex[Doc] = RemoteTex(Doc, origin)

\* C16: the merge command is invoked only while the token exists; the token
\* is created only after stash and fetch have run successfully, and once
\* created the next step is the merge.
C16_GateOrdering ==
  /\ pc = "merge" => disable_hooks
  /\ "merge" \in ran => "touch" \in ran
  /\ "touch" \in ran =>
       /\ {"stash", "fetch"} \subseteq ran
       /\ pc = "merge" \/ "merge" \in ran

\* C16 witness: the token was absent when the document started and exists
\* as the merge command is about to run.
C16_Witness ==
  pc = "merge" /\ ~tokenBefore /\ disable_hooks /\ "fetch" \in ran

\* C17: if RichForm is still absent after ENSURE_RICH, process_file has
\* returned False having run no other step: HEAD and the token are as they
\* were when the document started.
C17_EnsureRichStops ==
  (InProcessFile /\ pc \notin {"pf_start", "ensure_rich"} /\ lyx[Doc] = None) =>
     /\ pc = "pf_return" /\ ~retval
     /\ ran = {"ensure_rich"}
     /\ head = headBefore
     /\ disable_hooks = tokenBefore

\* C17 witness: the converter failed on a document without RichForm and
\* process_file returned False.
C17_Witness ==
  pc = "pf_return" /\ ran = {"ensure_rich"} /\ lyx[Doc] = None /\ ~retval /\ failed

\* C18 (as stated): when process_file returns False after the Backup commit,
\* HEAD is the commit it was before the document, no checkpoint commit is
\* reachable from HEAD and no merge is in progress.
C18_RollbackOnFailure ==
  (pc = "pf_return" /\ ~retval /\ "export" \in ran) =>
     /\ head = headBefore
     /\ History(head, commits) \cap CheckpointMsgs = {}
     /\ mergeState = "none"

\* C18 (amended): nothing is rolled back.  When process_file returns False
\* after the Backup commit and before a successful reset, the document's
\* Backup commit is still reachable from HEAD; a merge in progress at the
\* return was left by this document's merge or conflict handling.
C18_NoRollback ==
  (pc = "pf_return" /\ ~retval /\ "export" \in ran) =>
     /\ "diff" \notin ran => (head # headBefore /\ BackupReachable)
     /\ mergeState # "none" => ("merge" \in ran /\ "pop" \notin ran)

\* C18 witness: the merge stopped on a conflict, process_file returned False,
\* the Backup commit is in HEAD's history and the merge is still in progress.
C18_Witness ==
  /\ pc = "pf_return" /\ ~retval /\ "merge" \in ran
  /\ mergeState = "unmerged"
  /\ BackupReachable

\* C19: until process_file creates the token, the token is as process_file
\* found it, and this also holds at the return of an execution that failed
\* before the acquisition.
C19_GateFrame ==
  (InProcessFile /\ "touch" \notin ran) => disable_hooks = tokenBefore

\* C19 witness: a document failed before the acquisition while the token
\* existed, and the token still exists at the return.
C19_Witness ==
  pc = "pf_return" /\ failed /\ "touch" \notin ran /\ tokenBefore /\ disable_hooks

====
